---- MODULE Spec2Model ----
(***************************************************************************)
(* SmartIR: the controller registry (custom_components/smartir/            *)
(* controller.py) and the Toshiba batch command runner                     *)
(* (scripts/send_toshiba_commands.py).                                     *)
(*                                                                         *)
(* Text is modelled as a sequence of one-character strings, so that the    *)
(* path building of extract_all_commands and the JSON encoding of the      *)
(* payload are computed, not assumed.                                      *)
(***************************************************************************)
EXTENDS Integers, Sequences, FiniteSets, TLC

VARIABLES
    \* ---- command table flattening (extract_all_commands on its own)
    table,          \* the nested mapping handed to extract_all_commands
    flat,           \* the list it returned
    fpc,            \* "idle" before the call, "done" after it
    \* ---- controller registry and dispatch (controller.py)
    cpc,            \* "idle", then "resolved" or "failed"
    ctlReq,         \* the arguments of the get_controller / constructor call
    ctl,            \* the controller object (its attributes as far as assigned)
    ctlRaised,      \* the exception that call raised, or "none"
    hassCalls,      \* the hass.services.async_call calls made so far
    sendLog,        \* per send(): the command and how the call ended
    \* ---- batch command runner (send_toshiba_commands.py)
    pc,             \* where main() is
    file,           \* the commands file as found on disk
    commands,       \* device_data.get('commands', {})
    all_commands,   \* the flattened (path, payload) list
    client,         \* self.client: "None" or "Client"
    connected,      \* self.connected
    timeout,        \* the local `timeout` of connect(), in half units
    connectResult,  \* what connect() returned: "none", "True", "False"
    i,              \* the loop index of main()
    loopRunning,    \* the background network thread of loop_start()
    link,           \* the transport connection as the library sees it
    seen,           \* the kinds of transport callbacks delivered so far
    trace,          \* the calls main() has made on the transport and the operator
    answer,         \* the line the operator typed at the last prompt
    exitStatus      \* the process exit status, -1 while it runs

flatVars == <<table, flat, fpc>>
ctlVars == <<cpc, ctlReq, ctl, ctlRaised, hassCalls, sendLog>>
runVars == <<pc, file, commands, all_commands, client, connected, timeout,
             connectResult, i, loopRunning, link, seen, trace, answer, exitStatus>>

vars == <<table, flat, fpc, cpc, ctlReq, ctl, ctlRaised, hassCalls, sendLog,
          pc, file, commands, all_commands, client, connected, timeout,
          connectResult, i, loopRunning, link, seen, trace, answer, exitStatus>>

----------------------------------------------------------------------------
(* Bounds                                                                  *)

\* Largest number of entries (keys at any depth) of a table in SpecFlat.
MaxEntries == 3

\* Largest number of send() calls on one controller in SpecCtl.
MaxSends == 2

\* Largest number of commands in the command table of a batch run.
MaxCommands == 3

----------------------------------------------------------------------------
(* Text and JSON values                                                    *)

\* Dictionary keys: the empty string is a legal JSON key.
Keys == { <<>>, <<"a">>, <<"b">> }

\* Encoded IR command strings found at the leaves of a command table.
Payloads == { <<"X">>, <<"Q", "\"">> }

StrVal(s) == [kind |-> "str", str |-> s, items |-> <<>>]
DictVal(d) == [kind |-> "dict", str |-> <<>>, items |-> d]
\* A JSON value that is neither a string nor an object (number, list, null).
OtherVal == [kind |-> "other", str |-> <<>>, items |-> <<>>]

Entry(k, v) == [key |-> k, value |-> v]

\* The values an entry of total size j can hold (the entry itself counts 1),
\* with keys from K and childless values from L.
RECURSIVE DictsOfSize(_, _, _)
ValuesOfSize(j, K, L) ==
    IF j = 1 THEN L
    ELSE { DictVal(d) : d \in DictsOfSize(j - 1, K, L) }

\* Python dicts in insertion order, by their total number of entries
\* (nested ones included); j is the size of the first entry.
DictsOfSize(n, K, L) ==
    IF n = 0 THEN { <<>> }
    ELSE UNION { { <<Entry(k, v)>> \o r :
                     k \in K, v \in ValuesOfSize(j, K, L),
                     r \in DictsOfSize(n - j, K, L) }
                 : j \in 1..n }

\* The keys of one dict are pairwise distinct, at every depth.
RECURSIVE WellFormed(_)
WellFormed(d) ==
    /\ \A m, n \in 1..Len(d) : m # n => d[m].key # d[n].key
    /\ \A m \in 1..Len(d) : d[m].value.kind = "dict" => WellFormed(d[m].value.items)

DictsUpTo(n, K, L) ==
    { d \in UNION { DictsOfSize(m, K, L) : m \in 0..n } : WellFormed(d) }

\* Childless values: a command string, a non-string scalar, an empty mapping.
Leaves == { StrVal(p) : p \in Payloads } \cup { OtherVal, DictVal(<<>>) }

----------------------------------------------------------------------------
(* extract_all_commands                                                    *)

\* f"{path}.{key}" if path else key
current_path(path, key) == IF path # <<>> THEN path \o <<".">> \o key ELSE key

RECURSIVE extract_recursive(_, _, _)
RECURSIVE extract_items(_, _, _)
\* The body of the `for key, value in obj.items()` loop, over the items left;
\* acc is the all_commands list so far.
extract_items(items, path, acc) ==
    IF items = <<>> THEN acc
    ELSE LET key == Head(items).key
             value == Head(items).value
             cp == current_path(path, key)
             after == IF value.kind = "str"
                      THEN Append(acc, <<cp, value.str>>)
                      ELSE extract_recursive(value, cp, acc)
         IN extract_items(Tail(items), path, after)

extract_recursive(obj, path, acc) ==
    IF obj.kind = "dict" THEN extract_items(obj.items, path, acc)
    ELSE acc

extract_all_commands(cmds) == extract_recursive(cmds, <<>>, <<>>)

----------------------------------------------------------------------------
(* JSON encoding of the vendor envelope                                    *)

\* json.dumps of a str: quotes around it, '"' and '\' escaped by a '\'.
RECURSIVE JsonEscape(_)
JsonEscape(s) ==
    IF s = <<>> THEN <<>>
    ELSE (IF Head(s) \in { "\"", "\\" } THEN <<"\\", Head(s)>> ELSE <<Head(s)>>)
         \o JsonEscape(Tail(s))

JsonString(s) == <<"\"">> \o JsonEscape(s) \o <<"\"">>

\* The field name of the UFO-R11 envelope (a run of plain characters).
IR_CODE_TO_SEND == <<"ir_code_to_send">>

\* The envelope built by string formatting, the command not escaped.
json_dumps_envelope_unescaped(command) ==
    <<"{">> \o JsonString(IR_CODE_TO_SEND) \o <<":", " ">>
            \o <<"\"">> \o command \o <<"\"">> \o <<"}">>

\* json.dumps({"ir_code_to_send": command}) with the default separators.
json_dumps_envelope(command) ==
    <<"{">> \o JsonString(IR_CODE_TO_SEND) \o <<":", " ">>
            \o JsonString(command) \o <<"}">>

----------------------------------------------------------------------------
(* controller.py                                                           *)

MQTT_CONTROLLER == "MQTT"
UFOR11_CONTROLLER == "UFOR11"

ENC_BASE64 == "Base64"
ENC_HEX == "Hex"
ENC_PRONTO == "Pronto"
ENC_RAW == "Raw"

MQTT_COMMANDS_ENCODING == { ENC_RAW }
UFOR11_COMMANDS_ENCODING == { ENC_RAW }

Encodings == { ENC_BASE64, ENC_HEX, ENC_PRONTO, ENC_RAW }

\* The declared kinds, and one kind no registry entry exists for.
DeclaredKinds == { MQTT_CONTROLLER, UFOR11_CONTROLLER }
RequestedKinds == DeclaredKinds \cup { "Broadlink" }

Classes == { "MQTTController", "UFOR11Controller" }

\* The `controllers` dict of get_controller.
controllers ==
    [k \in DeclaredKinds |->
        IF k = MQTT_CONTROLLER THEN "MQTTController" ELSE "UFOR11Controller"]

\* Topics a device can be configured with (controller_data).
Topics == { <<"t1">>, <<"t2">> }

\* Command strings handed to send().
Commands == { <<"A", "B">>, <<"Q", "\"">>, <<"\\">> }

AttrNames == { "hass", "_controller", "_encoding", "_controller_data", "_delay" }

\* An object of class cls no attribute of which has been assigned.
BlankObject(cls) ==
    [cls |-> cls, assigned |-> {}, _controller |-> "", _encoding |-> "",
     _controller_data |-> <<>>, _delay |-> 0]

NoController == BlankObject("None")

\* check_encoding with the MQTT controller testing against the LOOKIN list.
LOOKIN_COMMANDS_ENCODING == { ENC_PRONTO, ENC_RAW }

check_encoding_lookin(cls, encoding) ==
    IF cls = "UFOR11Controller"
    THEN IF encoding \notin UFOR11_COMMANDS_ENCODING
         THEN "EncodingNotSupportedByUFOR11" ELSE "none"
    ELSE IF encoding \notin LOOKIN_COMMANDS_ENCODING
         THEN "EncodingNotSupportedByMqtt" ELSE "none"

\* MQTTController.check_encoding / UFOR11Controller.check_encoding: the
\* exception raised, or "none".
check_encoding(cls, encoding) ==
    IF cls = "UFOR11Controller"
    THEN IF encoding \notin UFOR11_COMMANDS_ENCODING
         THEN "EncodingNotSupportedByUFOR11" ELSE "none"
    ELSE IF encoding \notin MQTT_COMMANDS_ENCODING
         THEN "EncodingNotSupportedByMqtt" ELSE "none"

\* AbstractController.__init__: check_encoding first, then the assignments.
AbstractController_init(cls, controller, encoding, controller_data, delay) ==
    LET exc == check_encoding(cls, encoding)
    IN IF exc # "none"
       THEN [raised |-> exc, obj |-> BlankObject(cls)]
       ELSE [raised |-> "none",
             obj |-> [cls |-> cls, assigned |-> AttrNames,
                      _controller |-> controller, _encoding |-> encoding,
                      _controller_data |-> controller_data, _delay |-> delay]]

\* get_controller: the registry is built but not consulted; the class
\* instantiated is UFOR11Controller whatever `controller` is.  Only a
\* KeyError would be turned into "The controller is not supported.".
get_controller(controller, encoding, controller_data, delay) ==
    LET r == AbstractController_init("UFOR11Controller", controller, encoding,
                                     controller_data, delay)
    IN IF r.raised = "KeyError"
       THEN [raised |-> "ControllerNotSupported", obj |-> NoController]
       ELSE r

\* The service_data of MQTTController.send / UFOR11Controller.send.
service_data(obj, command) ==
    [topic |-> obj._controller_data,
     payload |-> IF obj.cls = "UFOR11Controller"
                 THEN json_dumps_envelope(command) ELSE command]

Delays == { 0 }

InitCtl ==
    /\ cpc = "idle"
    /\ ctlReq = [via |-> "none", kind |-> "", encoding |-> "", topic |-> <<>>]
    /\ ctl = NoController
    /\ ctlRaised = "none"
    /\ hassCalls = <<>>
    /\ sendLog = <<>>

\* A caller resolves a controller through the registry.
Resolve(kind, encoding, topic, delay) ==
    /\ cpc = "idle"
    /\ LET r == get_controller(kind, encoding, topic, delay)
       IN /\ ctl' = r.obj
          /\ ctlRaised' = r.raised
          /\ cpc' = IF r.raised = "none" THEN "resolved" ELSE "failed"
    /\ ctlReq' = [via |-> "get_controller", kind |-> kind,
                  encoding |-> encoding, topic |-> topic]
    /\ UNCHANGED <<hassCalls, sendLog, flatVars, runVars>>

\* A caller instantiates one of the controller classes itself.
Construct(cls, encoding, topic, delay) ==
    /\ cpc = "idle"
    /\ LET kind == IF cls = "MQTTController" THEN MQTT_CONTROLLER
                                              ELSE UFOR11_CONTROLLER
           r == AbstractController_init(cls, kind, encoding, topic, delay)
       IN /\ ctl' = r.obj
          /\ ctlRaised' = r.raised
          /\ cpc' = IF r.raised = "none" THEN "resolved" ELSE "failed"
    /\ ctlReq' = [via |-> "constructor", kind |-> cls,
                  encoding |-> encoding, topic |-> topic]
    /\ UNCHANGED <<hassCalls, sendLog, flatVars, runVars>>

\* send() with the service call wrapped in try/except: a failed publish is
\* logged and send() returns normally.
Send_Swallows(command, raises) ==
    /\ cpc = "resolved"
    /\ Len(sendLog) < MaxSends
    /\ hassCalls' = Append(hassCalls,
                           [domain |-> "mqtt", service |-> "publish",
                            data |-> service_data(ctl, command),
                            raised |-> raises])
    /\ sendLog' = Append(sendLog,
                         [command |-> command, ended |-> "returned",
                          calls |-> Len(hassCalls) + 1])
    /\ UNCHANGED <<cpc, ctlReq, ctl, ctlRaised, flatVars, runVars>>

\* send(command): one hass.services.async_call('mqtt', 'publish', ...);
\* what the call raises is not caught.
Send(command, raises) ==
    /\ cpc = "resolved"
    /\ Len(sendLog) < MaxSends
    /\ hassCalls' = Append(hassCalls,
                           [domain |-> "mqtt", service |-> "publish",
                            data |-> service_data(ctl, command),
                            raised |-> raises])
    /\ sendLog' = Append(sendLog,
                         [command |-> command,
                          ended |-> IF raises THEN "raised" ELSE "returned",
                          calls |-> Len(hassCalls) + 1])
    /\ UNCHANGED <<cpc, ctlReq, ctl, ctlRaised, flatVars, runVars>>

NextCtl ==
    \/ \E k \in RequestedKinds, e \in Encodings, t \in Topics, d \in Delays :
          Resolve(k, e, t, d)
    \/ \E c \in Classes, e \in Encodings, t \in Topics, d \in Delays :
          Construct(c, e, t, d)
    \/ \E c \in Commands, x \in BOOLEAN :
          Send(c, x)

----------------------------------------------------------------------------
(* send_toshiba_commands.py                                                *)

\* `timeout = 10` of connect(); the wait sleeps 0.5 per poll.
ConnectTimeout == 10

\* MQTT_TOPIC, by default "smartir/send_command".
mqtt_topic == <<"smartir/send_command">>

\* A key made of n letters: "k", "kk", "kkk", ...
KeyOfLen(n) == [m \in 1..n |-> "k"]

\* The command tables of a batch run, shaped like the toshiba.json one:
\* {"a": {"k": .., "kk": .., ...}} with n command strings, n = 0 being
\* the non-empty table {"a": {}} that holds no command.
RunTable(n) ==
    DictVal(<< Entry(<<"a">>,
                     DictVal([m \in 1..n |->
                                Entry(KeyOfLen(m),
                                      StrVal(IF m = 1 THEN <<"Q", "\"">>
                                                      ELSE <<"X">>))])) >>)

\* The commands file: absent, not JSON, unreadable, JSON without a
\* `commands` key, or JSON with a command table under `commands`.
Files ==
    { [status |-> st, commands |-> DictVal(<<>>)] :
        st \in { "missing", "malformed", "unreadable", "nokey", "ok" } }
    \cup { [status |-> "ok", commands |-> RunTable(n)] : n \in 0..MaxCommands }

\* main() without the `if not commands` test: every value passes.
Truthy_NoTest(v) == TRUE

\* Python truthiness of a JSON value as `if not commands` tests it.
Truthy(v) == IF v.kind = "dict" THEN v.items # <<>> ELSE TRUE

\* What the operator can type at the prompt.
Lines == { <<>>, <<"q">>, <<" ", "Q", " ">>, <<"q", "q">> }

\* str.lower and str.strip over the characters the lines are made of.
Lower(line) == [n \in 1..Len(line) |-> IF line[n] = "Q" THEN "q" ELSE line[n]]

RECURSIVE LStrip(_)
LStrip(line) ==
    IF line # <<>> /\ Head(line) = " " THEN LStrip(Tail(line)) ELSE line

RECURSIVE RStrip(_)
RStrip(line) ==
    IF line # <<>> /\ line[Len(line)] = " "
    THEN RStrip(SubSeq(line, 1, Len(line) - 1)) ELSE line

Strip(line) == RStrip(LStrip(line))

\* get_user_confirmation comparing the raw line: input(...) != 'q'
get_user_confirmation_raw(line) == line # <<"q">>

\* get_user_confirmation: input(...).strip().lower() != 'q'
get_user_confirmation(line) == Lower(Strip(line)) # <<"q">>

Ev(ev, n, res, data) == [ev |-> ev, i |-> n, res |-> res, data |-> data]

N == Len(all_commands)

Exited == pc = "exited"

InitRun ==
    /\ pc = "load"
    /\ file \in Files
    /\ commands = DictVal(<<>>)
    /\ all_commands = <<>>
    /\ client = "None"
    /\ connected = FALSE
    /\ timeout = 0
    /\ connectResult = "none"
    /\ i = 0
    /\ loopRunning = FALSE
    /\ link = "none"
    /\ seen = {}
    /\ trace = <<>>
    /\ answer = <<>>
    /\ exitStatus = -1

\* sys.exit(status), or an exception nothing catches.
Exit(status) ==
    /\ pc' = "exited"
    /\ exitStatus' = status

\* load_toshiba_commands: the three except clauses, each sys.exit(1).
LoadFail ==
    /\ pc = "load"
    /\ file.status \in { "missing", "malformed", "unreadable" }
    /\ Exit(1)
    /\ UNCHANGED <<flatVars, ctlVars, file, commands, all_commands, client, connected, timeout,
                   connectResult, i, loopRunning, link, seen, trace, answer>>

\* load_toshiba_commands returns; commands = device_data.get('commands', {}).
LoadOk ==
    /\ pc = "load"
    /\ file.status \in { "nokey", "ok" }
    /\ commands' = IF file.status = "ok" THEN file.commands ELSE DictVal(<<>>)
    /\ pc' = "loaded"
    /\ UNCHANGED <<flatVars, ctlVars, file, all_commands, client, connected, timeout,
                   connectResult, i, loopRunning, link, seen, trace, answer, exitStatus>>

\* if not commands: sys.exit(1)
NoCommands ==
    /\ pc = "loaded"
    /\ ~Truthy(commands)
    /\ Exit(1)
    /\ UNCHANGED <<flatVars, ctlVars, file, commands, all_commands, client, connected, timeout,
                   connectResult, i, loopRunning, link, seen, trace, answer>>

\* all_commands = extract_all_commands(commands), then the tester object
\* is built (client None, connected False) and main() goes on to connect().
Extract ==
    /\ pc = "loaded"
    /\ Truthy(commands)
    /\ all_commands' = extract_all_commands(commands)
    /\ pc' = "connect"
    /\ UNCHANGED <<flatVars, ctlVars, file, commands, client, connected, timeout,
                   connectResult, i, loopRunning, link, seen, trace, answer, exitStatus>>

inputVars == <<file, commands, all_commands>>

\* connect(), lines 42-56: the client is created and its callbacks set;
\* client.connect() opens the socket (or raises, or is interrupted), then
\* loop_start() starts the network thread.
ClientConnect(outcome) ==
    /\ pc = "connect"
    /\ client' = "Client"
    /\ CASE outcome = "ok" ->
              /\ link' = "pending"
              /\ loopRunning' = TRUE
              /\ trace' = Append(trace, Ev("loop_start", 0, "", <<>>))
              /\ timeout' = 2 * ConnectTimeout
              /\ pc' = "wait"
              /\ UNCHANGED <<connectResult, exitStatus>>
         [] outcome = "raises" ->
              \* except Exception: return False
              /\ connectResult' = "False"
              /\ pc' = "connect_returned"
              /\ UNCHANGED <<link, loopRunning, trace, timeout, exitStatus>>
         [] outcome = "interrupt" ->
              \* KeyboardInterrupt is no Exception: nothing catches it
              /\ Exit(130)
              /\ UNCHANGED <<link, loopRunning, trace, timeout, connectResult>>
    /\ UNCHANGED <<flatVars, ctlVars, inputVars, connected, i, seen, answer>>

\* while not self.connected and timeout > 0: sleep(0.5); timeout -= 0.5
WaitPoll ==
    /\ pc = "wait"
    /\ IF ~connected /\ timeout > 0
       THEN timeout' = timeout - 1 /\ pc' = "wait"
       ELSE pc' = "wait_check" /\ UNCHANGED timeout
    /\ UNCHANGED <<flatVars, ctlVars, inputVars, client, connected, connectResult, i,
                   loopRunning, link, seen, trace, answer, exitStatus>>

\* KeyboardInterrupt during time.sleep(0.5): it leaves connect() and main().
WaitInterrupt ==
    /\ pc = "wait"
    /\ ~connected /\ timeout > 0
    /\ Exit(130)
    /\ UNCHANGED <<flatVars, ctlVars, inputVars, client, connected, timeout, connectResult, i,
                   loopRunning, link, seen, trace, answer>>

\* connect() returning True after the wait whatever self.connected is.
WaitCheck_AlwaysTrue ==
    /\ pc = "wait_check"
    /\ connectResult' = "True"
    /\ pc' = "connect_returned"
    /\ UNCHANGED <<flatVars, ctlVars, inputVars, client, connected, timeout, i,
                   loopRunning, link, seen, trace, answer, exitStatus>>

\* if not self.connected: return False; return True
WaitCheck ==
    /\ pc = "wait_check"
    /\ connectResult' = IF connected THEN "True" ELSE "False"
    /\ pc' = "connect_returned"
    /\ UNCHANGED <<flatVars, ctlVars, inputVars, client, connected, timeout, i,
                   loopRunning, link, seen, trace, answer, exitStatus>>

\* main: if not mqtt_client.connect(): sys.exit(1)
ConnectFailed ==
    /\ pc = "connect_returned"
    /\ connectResult = "False"
    /\ Exit(1)
    /\ UNCHANGED <<flatVars, ctlVars, inputVars, client, connected, timeout, connectResult, i,
                   loopRunning, link, seen, trace, answer>>

\* connect() returned True: main enters the try block.
EnterLoop ==
    /\ pc = "connect_returned"
    /\ connectResult = "True"
    /\ pc' = "for"
    /\ UNCHANGED <<flatVars, ctlVars, inputVars, client, connected, timeout, connectResult, i,
                   loopRunning, link, seen, trace, answer, exitStatus>>

\* A loop that sends a command again when its send returned False.
ForNext_Retry ==
    /\ pc = "for"
    /\ IF i > 0 /\ \E n \in 1..Len(trace) :
                     trace[n].ev = "sent" /\ trace[n].i = i /\ trace[n].res = "False"
       THEN pc' = "send" /\ UNCHANGED i
       ELSE IF i < N
            THEN i' = i + 1 /\ pc' = "send"
            ELSE pc' = "finally" /\ UNCHANGED i
    /\ UNCHANGED <<flatVars, ctlVars, inputVars, client, connected, timeout,
                   connectResult, loopRunning, link, seen, trace, answer, exitStatus>>

\* for i, (command_name, command_data) in enumerate(all_commands, 1)
ForNext ==
    /\ pc = "for"
    /\ IF i < N
       THEN i' = i + 1 /\ pc' = "send"
       ELSE pc' = "finally" /\ UNCHANGED i
    /\ UNCHANGED <<flatVars, ctlVars, inputVars, client, connected, timeout, connectResult,
                   loopRunning, link, seen, trace, answer, exitStatus>>

\* send_command is called; if not self.connected: return False
SendCheck ==
    /\ pc = "send"
    /\ IF ~connected
       THEN /\ trace' = trace \o << Ev("send", i, "", <<>>),
                                    Ev("sent", i, "False", <<>>) >>
            /\ pc' = "sent"
       ELSE /\ trace' = Append(trace, Ev("send", i, "", <<>>))
            /\ pc' = "publish"
    /\ UNCHANGED <<flatVars, ctlVars, inputVars, client, connected, timeout, connectResult, i,
                   loopRunning, link, seen, answer, exitStatus>>

\* send_command publishing the command string as it is.
publish_args_verbatim(command_data) == <<mqtt_topic, command_data>>

\* The (topic, payload) send_command hands to client.publish.
publish_args(command_data) == <<mqtt_topic, json_dumps_envelope(command_data)>>

\* send_command without its try/except: an exception of client.publish
\* reaches main's `except Exception` and ends the loop.
Publish_Uncaught(outcome) ==
    /\ pc = "publish"
    /\ IF outcome = "exception"
       THEN /\ trace' = Append(trace, Ev("publish", i, outcome,
                                         publish_args(all_commands[i][2])))
            /\ pc' = "finally"
       ELSE /\ trace' = trace \o
                  << Ev("publish", i, outcome, publish_args(all_commands[i][2])),
                     Ev("sent", i, IF outcome = "success" THEN "True" ELSE "False",
                        <<>>) >>
            /\ pc' = "sent"
    /\ UNCHANGED <<flatVars, ctlVars, inputVars, client, connected, timeout,
                   connectResult, i, loopRunning, link, seen, answer, exitStatus>>

\* result = self.client.publish(...): rc success gives True, another rc
\* gives False, an exception is caught and gives False.
Publish(outcome) ==
    /\ pc = "publish"
    /\ trace' = trace \o
          << Ev("publish", i, outcome, publish_args(all_commands[i][2])),
             Ev("sent", i, IF outcome = "success" THEN "True" ELSE "False", <<>>) >>
    /\ pc' = "sent"
    /\ UNCHANGED <<flatVars, ctlVars, inputVars, client, connected, timeout, connectResult, i,
                   loopRunning, link, seen, answer, exitStatus>>

\* KeyboardInterrupt inside client.publish: main's except KeyboardInterrupt.
PublishInterrupt ==
    /\ pc = "publish"
    /\ trace' = Append(trace, Ev("publish", i, "interrupt",
                                 publish_args(all_commands[i][2])))
    /\ pc' = "finally"
    /\ UNCHANGED <<flatVars, ctlVars, inputVars, client, connected, timeout, connectResult, i,
                   loopRunning, link, seen, answer, exitStatus>>

\* main() prompting after every command, the last one included.
AfterSend_AlwaysPrompts ==
    /\ pc = "sent"
    /\ pc' = "prompt"
    /\ UNCHANGED <<flatVars, ctlVars, inputVars, client, connected, timeout,
                   connectResult, i, loopRunning, link, seen, trace, answer, exitStatus>>

\* if not success: warning; if i < len(all_commands): prompt
AfterSend ==
    /\ pc = "sent"
    /\ pc' = IF i < N THEN "prompt" ELSE "for"
    /\ UNCHANGED <<flatVars, ctlVars, inputVars, client, connected, timeout, connectResult, i,
                   loopRunning, link, seen, trace, answer, exitStatus>>

\* if not get_user_confirmation(): break
Prompt(line) ==
    /\ pc = "prompt"
    /\ answer' = line
    /\ LET go == get_user_confirmation(line)
       IN /\ trace' = Append(trace, Ev("prompt", i,
                                       IF go THEN "continue" ELSE "quit", <<>>))
          /\ pc' = IF go THEN "for" ELSE "finally"
    /\ UNCHANGED <<flatVars, ctlVars, inputVars, client, connected, timeout, connectResult, i,
                   loopRunning, link, seen, exitStatus>>

\* main() without the KeyboardInterrupt clause and the finally block: an
\* interrupt at the prompt ends the process at once.
PromptRaises_NoFinally(exc) ==
    /\ pc = "prompt"
    /\ trace' = Append(trace, Ev("prompt", i, exc, <<>>))
    /\ IF exc = "KeyboardInterrupt"
       THEN Exit(130)
       ELSE pc' = "finally" /\ UNCHANGED exitStatus
    /\ UNCHANGED <<flatVars, ctlVars, inputVars, client, connected, timeout,
                   connectResult, i, loopRunning, link, seen, answer>>

\* input() raises: KeyboardInterrupt (Ctrl-C) or EOFError (stdin closed).
PromptRaises(exc) ==
    /\ pc = "prompt"
    /\ trace' = Append(trace, Ev("prompt", i, exc, <<>>))
    /\ pc' = "finally"
    /\ UNCHANGED <<flatVars, ctlVars, inputVars, client, connected, timeout, connectResult, i,
                   loopRunning, link, seen, answer, exitStatus>>

\* finally: mqtt_client.disconnect(): if self.client: self.client.loop_stop()
DisconnectLoopStop ==
    /\ pc = "finally"
    /\ IF client # "None"
       THEN /\ loopRunning' = FALSE
            /\ trace' = Append(trace, Ev("loop_stop", 0, "", <<>>))
            /\ pc' = "finally_disconnect"
       ELSE /\ pc' = "return"
            /\ UNCHANGED <<loopRunning, trace>>
    /\ UNCHANGED <<flatVars, ctlVars, inputVars, client, connected, timeout, connectResult, i,
                   link, seen, answer, exitStatus>>

\* disconnect() resetting the flag itself instead of leaving it to the callback.
DisconnectClient_ClearsFlag ==
    /\ pc = "finally_disconnect"
    /\ trace' = Append(trace, Ev("disconnect", 0, "", <<>>))
    /\ link' = IF link \in { "pending", "up", "refused" } THEN "closing" ELSE link
    /\ connected' = FALSE
    /\ pc' = "return"
    /\ UNCHANGED <<flatVars, ctlVars, inputVars, client, timeout, connectResult, i,
                   loopRunning, seen, answer, exitStatus>>

\* self.client.disconnect()
DisconnectClient ==
    /\ pc = "finally_disconnect"
    /\ trace' = Append(trace, Ev("disconnect", 0, "", <<>>))
    /\ link' = IF link \in { "pending", "up", "refused" } THEN "closing" ELSE link
    /\ pc' = "return"
    /\ UNCHANGED <<flatVars, ctlVars, inputVars, client, connected, timeout, connectResult, i,
                   loopRunning, seen, answer, exitStatus>>

\* main() returns: the process ends with status 0.
Return ==
    /\ pc = "return"
    /\ Exit(0)
    /\ UNCHANGED <<flatVars, ctlVars, inputVars, client, connected, timeout, connectResult, i,
                   loopRunning, link, seen, trace, answer>>

\* _on_connect setting the flag whatever the return code is.
OnConnect_AnyRc(rc) ==
    /\ ~Exited
    /\ loopRunning
    /\ link = "pending"
    /\ connected' = TRUE
    /\ IF rc = 0
       THEN link' = "up" /\ seen' = seen \cup { "connect_ok" }
       ELSE link' = "refused" /\ seen' = seen \cup { "connect_refused" }
    /\ UNCHANGED <<flatVars, ctlVars, inputVars, pc, client, timeout, connectResult, i,
                   loopRunning, trace, answer, exitStatus>>

\* _on_connect, called by the network thread when the CONNACK arrives.
OnConnect(rc) ==
    /\ ~Exited
    /\ loopRunning
    /\ link = "pending"
    /\ IF rc = 0
       THEN /\ connected' = TRUE
            /\ link' = "up"
            /\ seen' = seen \cup { "connect_ok" }
       ELSE /\ link' = "refused"
            /\ seen' = seen \cup { "connect_refused" }
            /\ UNCHANGED connected
    /\ UNCHANGED <<flatVars, ctlVars, inputVars, pc, client, timeout, connectResult, i,
                   loopRunning, trace, answer, exitStatus>>

\* _on_disconnect, called when the connection is lost or closed: by the
\* network thread, or by the thread that writes the DISCONNECT packet.
OnDisconnect(rc) ==
    /\ ~Exited
    /\ \/ loopRunning /\ link \in { "pending", "up", "refused" }
       \/ link = "closing"
    /\ connected' = FALSE
    /\ link' = "down"
    /\ seen' = seen \cup { "disconnect" }
    /\ UNCHANGED <<flatVars, ctlVars, inputVars, pc, client, timeout, connectResult, i,
                   loopRunning, trace, answer, exitStatus>>

\* The network thread reconnects after a lost connection.
Reconnect ==
    /\ ~Exited
    /\ loopRunning
    /\ link = "down"
    /\ link' = "pending"
    /\ UNCHANGED <<flatVars, ctlVars, inputVars, pc, client, connected, timeout, connectResult, i,
                   loopRunning, seen, trace, answer, exitStatus>>

ReturnCodes == { 0, 5 }

Next ==
    \/ LoadFail
    \/ LoadOk
    \/ NoCommands
    \/ Extract
    \/ \E o \in { "ok", "raises", "interrupt" } : ClientConnect(o)
    \/ WaitPoll
    \/ WaitInterrupt
    \/ WaitCheck
    \/ ConnectFailed
    \/ EnterLoop
    \/ ForNext
    \/ SendCheck
    \/ \E o \in { "success", "rc_error", "exception" } : Publish(o)
    \/ PublishInterrupt
    \/ AfterSend
    \/ \E line \in Lines : Prompt(line)
    \/ \E exc \in { "KeyboardInterrupt", "EOFError" } : PromptRaises(exc)
    \/ DisconnectLoopStop
    \/ DisconnectClient
    \/ Return
    \/ \E rc \in ReturnCodes : OnConnect(rc)
    \/ \E rc \in ReturnCodes : OnDisconnect(rc)
    \/ Reconnect

\* The runner before main() is started (the other specifications).
RunIdle ==
    /\ pc = "load"
    /\ file = [status |-> "missing", commands |-> DictVal(<<>>)]
    /\ commands = DictVal(<<>>)
    /\ all_commands = <<>>
    /\ client = "None"
    /\ connected = FALSE
    /\ timeout = 0
    /\ connectResult = "none"
    /\ i = 0
    /\ loopRunning = FALSE
    /\ link = "none"
    /\ seen = {}
    /\ trace = <<>>
    /\ answer = <<>>
    /\ exitStatus = -1

FlatIdle ==
    /\ table = DictVal(<<>>)
    /\ flat = <<>>
    /\ fpc = "idle"

InitCtlSpec == InitCtl /\ FlatIdle /\ RunIdle

SpecCtl == InitCtlSpec /\ [][NextCtl]_vars

Init == InitRun /\ FlatIdle /\ InitCtl

Spec == Init /\ [][Next]_vars

----------------------------------------------------------------------------
(* SpecFlat: extract_all_commands applied to every bounded table           *)

InitFlat ==
    /\ table \in { DictVal(d) : d \in DictsUpTo(MaxEntries, Keys, Leaves) }
    /\ flat = <<>>
    /\ fpc = "idle"

Flatten ==
    /\ fpc = "idle"
    /\ flat' = extract_all_commands(table)
    /\ fpc' = "done"
    /\ UNCHANGED <<table, ctlVars, runVars>>

NextFlat == Flatten

InitFlatSpec == InitFlat /\ InitCtl /\ RunIdle

SpecFlat == InitFlatSpec /\ [][NextFlat]_vars

----------------------------------------------------------------------------
(* Properties of extract_all_commands (SpecFlat)                           *)

\* The string-valued entries of a mapping in pre-order, siblings in the
\* mapping's own order, each with the keys from the root down to it.
RECURSIVE LeavesOf(_, _)
LeavesOf(items, keys) ==
    IF items = <<>> THEN <<>>
    ELSE LET e == Head(items)
             here == IF e.value.kind = "str"
                     THEN << [keys |-> Append(keys, e.key), payload |-> e.value.str] >>
                     ELSE IF e.value.kind = "dict"
                          THEN LeavesOf(e.value.items, Append(keys, e.key))
                          ELSE <<>>
         IN here \o LeavesOf(Tail(items), keys)

\* k1.k2. ... .kn
RECURSIVE DotJoin(_)
DotJoin(keys) ==
    IF Len(keys) = 1 THEN keys[1]
    ELSE DotJoin(SubSeq(keys, 1, Len(keys) - 1)) \o <<".">> \o keys[Len(keys)]

\* C9: flatten returns exactly one (path, payload) per string-valued entry,
\* in pre-order with siblings in table order, each path being the
\* dot-joined key sequence from the root to the leaf; no leaf gives <<>>.
C9_FlattenDotJoinedPreOrder ==
    fpc = "done" =>
        LET leaves == LeavesOf(table.items, <<>>)
        IN flat = [n \in 1..Len(leaves) |->
                     << DotJoin(leaves[n].keys), leaves[n].payload >>]

----------------------------------------------------------------------------
(* Properties of the controller registry (SpecCtl)                         *)

ViaRegistry == cpc # "idle" /\ ctlReq.via = "get_controller"

\* C6: get_controller maps each declared kind to its own variant: MQTT to
\* the generic controller (payload verbatim), UFOR11 to the vendor variant
\* (JSON envelope).
C6_PerKindMapping ==
    (ViaRegistry /\ ctlReq.kind \in DeclaredKinds /\ ctlReq.encoding = ENC_RAW) =>
        /\ ctl.cls = controllers[ctlReq.kind]
        /\ \A n \in 1..Len(sendLog) :
              hassCalls[sendLog[n].calls].data.payload =
                  IF ctlReq.kind = MQTT_CONTROLLER
                  THEN sendLog[n].command
                  ELSE json_dumps_envelope(sendLog[n].command)

\* C7: get_controller with an undeclared kind fails with the
\* unsupported-controller error and returns no controller, whatever the
\* encoding.
C7_UnknownKindFails ==
    (ViaRegistry /\ ctlReq.kind \notin DeclaredKinds) =>
        /\ cpc = "failed"
        /\ ctlRaised = "ControllerNotSupported"
        /\ ctl = NoController

\* C8: constructing either variant with an encoding other than Raw raises
\* that variant's unsupported-encoding error before any attribute is
\* assigned and without any publish; with Raw the construction succeeds.
C8_EncodingCheckedFirst ==
    cpc # "idle" =>
        IF ctlReq.encoding # ENC_RAW
        THEN /\ cpc = "failed"
             /\ ctlRaised = IF ctl.cls = "UFOR11Controller"
                            THEN "EncodingNotSupportedByUFOR11"
                            ELSE "EncodingNotSupportedByMqtt"
             /\ ctl.assigned = {}
             /\ hassCalls = <<>>
        ELSE /\ cpc = "resolved"
             /\ ctlRaised = "none"
             /\ ctl.assigned = AttrNames
             /\ ctl._encoding = ENC_RAW

C8_Witness ==
    /\ cpc = "failed"
    /\ ctlReq.via = "constructor"
    /\ ctlReq.kind = "MQTTController"
    /\ ctlReq.encoding = ENC_HEX
    /\ ctlRaised = "EncodingNotSupportedByMqtt"

----------------------------------------------------------------------------
(* Properties of the batch run (Spec)                                      *)

EventsOf(ev) == { n \in 1..Len(trace) : trace[n].ev = ev }

Count(ev) == Cardinality(EventsOf(ev))

\* connect() returned True and main() went into its try block.
ReachedRunning == connectResult = "True" /\ pc # "connect_returned"

TornDown == { "loop_stop", "disconnect" }

\* C1: a run that reached Running ends with the teardown done exactly once,
\* loop_stop before disconnect, and nothing is sent, published or prompted
\* once the teardown has begun.
C1_TeardownExactlyOnce ==
    /\ Count("loop_stop") <= 1 /\ Count("disconnect") <= 1
    /\ \A m, n \in 1..Len(trace) :
          (m < n /\ trace[m].ev \in TornDown) => trace[n].ev = "disconnect"
    /\ (Exited /\ ReachedRunning) =>
          /\ Len(trace) >= 2
          /\ trace[Len(trace) - 1].ev = "loop_stop"
          /\ trace[Len(trace)].ev = "disconnect"
          /\ ~loopRunning

C1_Witness ==
    /\ Exited /\ ReachedRunning
    /\ \E n \in EventsOf("publish") : trace[n].res = "interrupt" /\ trace[n].i = 2
    /\ Count("disconnect") = 1

\* C2: a run that ends during Connecting with the network loop started
\* has stopped the loop and disconnected, exactly once, when it exits.
C2_AbortedConnectTornDown ==
    (Exited /\ Count("loop_start") = 1 /\ connectResult # "True") =>
        /\ Count("loop_stop") = 1
        /\ Count("disconnect") = 1
        /\ ~loopRunning

PublishFailed(n) ==
    trace[n].ev = "publish" /\ trace[n].res \in { "rc_error", "exception" }

AfterTeardownPcs == { "finally", "finally_disconnect", "return", "exited" }

\* C3: a failed publish of command i is recorded as a failed send and does
\* not end the run: for i < N the prompt follows, and after a "continue"
\* answer command i+1 is attempted.
C3_FaultIsolation ==
    \A n \in 1..Len(trace) :
        PublishFailed(n) =>
            /\ Len(trace) > n
            /\ trace[n + 1] = Ev("sent", trace[n].i, "False", <<>>)
            /\ trace[n].i < N =>
                  /\ Len(trace) = n + 1 => pc \in { "sent", "prompt" }
                  /\ Len(trace) > n + 1 =>
                        /\ trace[n + 2].ev = "prompt" /\ trace[n + 2].i = trace[n].i
                        /\ trace[n + 2].res = "continue" =>
                              /\ Len(trace) = n + 2 => pc \in { "for", "send" }
                              /\ Len(trace) > n + 2 =>
                                    trace[n + 3] = Ev("send", trace[n].i + 1, "", <<>>)

C3_Witness ==
    /\ Len(trace) >= 6
    /\ \E n \in 1..Len(trace) - 3 :
          /\ PublishFailed(n) /\ trace[n].res = "exception" /\ trace[n].i = 1
          /\ trace[n + 2].ev = "prompt"
          /\ trace[n + 3] = Ev("send", 2, "", <<>>)

\* The quit token: q in either case, blanks around it ignored.
QuitTokens == { <<"q">>, <<" ", "Q", " ">> }

\* The operator has just answered the latest prompt with the quit token.
QuitAnswered ==
    /\ Count("prompt") > 0
    /\ LET n == CHOOSE m \in EventsOf("prompt") :
                    \A k \in EventsOf("prompt") : k <= m
       IN trace[n].res \in { "continue", "quit" }
    /\ answer \in QuitTokens

\* C4: once a prompt is answered with the quit token the run goes to its
\* end: no later send, publish or prompt, one disconnect, exit status 0.
C4_QuitStopsRun ==
    QuitAnswered =>
        LET n == CHOOSE m \in EventsOf("prompt") :
                     \A k \in EventsOf("prompt") : k <= m
        IN /\ pc \in AfterTeardownPcs
           /\ \A m \in (n + 1)..Len(trace) : trace[m].ev \in TornDown
           /\ trace[n].i < N
           /\ Exited => Count("disconnect") = 1 /\ exitStatus = 0

C4_Witness ==
    /\ Exited
    /\ N = 3
    /\ answer = <<" ", "Q", " ">>
    /\ Count("prompt") = 1
    /\ Count("send") = 1
    /\ Count("disconnect") = 1

\* C5: without a successful connected-callback connect() returns False
\* (after the whole wait, when the loop was started); a False connect()
\* ends the run with a non-zero status and nothing was sent or published.
C5_TimeoutAborts ==
    /\ connectResult = "True" => "connect_ok" \in seen
    /\ (connectResult = "False" /\ "connect_ok" \notin seen /\ Count("loop_start") = 1)
          => timeout = 0
    /\ connectResult = "False" =>
          /\ pc \in { "connect_returned", "exited" }
          /\ Count("send") = 0 /\ Count("publish") = 0
          /\ Exited => exitStatus # 0

C5_Witness ==
    /\ Exited
    /\ exitStatus = 1
    /\ connectResult = "False"
    /\ Count("loop_start") = 1
    /\ seen = {}
    /\ timeout = 0
    /\ N = 2

\* C10: a table that flattens to zero commands stops the run before the
\* connection is used: no client is created and connect() is not called.
C10_NoCommandsNoConnection ==
    (file.status \in { "ok", "nokey" } /\ extract_all_commands(file.commands) = <<>>) =>
        /\ client = "None"
        /\ link = "none"
        /\ Count("loop_start") = 0

\* C11: a fatal load error (file missing, malformed or unreadable, or no
\* `commands` key) ends the run with a non-zero status before connect():
\* no client, no connection, no transport or operator call.
C11_LoadErrorsAreFatal ==
    file.status \in { "missing", "malformed", "unreadable", "nokey" } =>
        /\ pc \in { "load", "loaded", "exited" }
        /\ client = "None" /\ link = "none" /\ ~loopRunning
        /\ trace = <<>>
        /\ connectResult = "none"
        /\ Exited => exitStatus # 0

C11_Witness ==
    /\ Exited
    /\ file.status = "nokey"
    /\ exitStatus = 1
    /\ client = "None"

----------------------------------------------------------------------------
(* Properties of send() (SpecCtl)                                          *)

\* C12: each send() makes exactly one publish call, the n-th send the n-th
\* call, and send() ends by raising exactly when that call raised.
C12_OnePublishPerSend ==
    /\ Len(hassCalls) = Len(sendLog)
    /\ \A n \in 1..Len(sendLog) :
          /\ sendLog[n].calls = n
          /\ hassCalls[n].domain = "mqtt" /\ hassCalls[n].service = "publish"
          /\ (sendLog[n].ended = "raised") <=> hassCalls[n].raised

C12_Witness ==
    /\ Len(sendLog) = 2
    /\ ctl.cls = "MQTTController"
    /\ sendLog[1].ended = "raised"
    /\ sendLog[2].ended = "returned"
    /\ Len(hassCalls) = 2

\* Reading a JSON string literal: s is the text after the opening quote,
\* acc the characters read so far.
RECURSIVE ScanString(_, _)
ScanString(s, acc) ==
    IF s = <<>> THEN [ok |-> FALSE, val |-> <<>>, rest |-> <<>>]
    ELSE IF Head(s) = "\"" THEN [ok |-> TRUE, val |-> acc, rest |-> Tail(s)]
    ELSE IF Head(s) = "\\"
         THEN IF Len(s) >= 2 /\ s[2] \in { "\"", "\\" }
              THEN ScanString(Tail(Tail(s)), Append(acc, s[2]))
              ELSE [ok |-> FALSE, val |-> <<>>, rest |-> <<>>]
    ELSE ScanString(Tail(s), Append(acc, Head(s)))

ParseString(s) ==
    IF s # <<>> /\ Head(s) = "\"" THEN ScanString(Tail(s), <<>>)
    ELSE [ok |-> FALSE, val |-> <<>>, rest |-> <<>>]

RECURSIVE SkipBlanks(_)
SkipBlanks(s) == IF s # <<>> /\ Head(s) = " " THEN SkipBlanks(Tail(s)) ELSE s

\* json.loads of a text holding an object with one string member:
\* ok, the member's name and its value.
JsonLoadsObject(text) ==
    LET bad == [ok |-> FALSE, key |-> <<>>, value |-> <<>>]
    IN IF text = <<>> \/ Head(text) # "{" THEN bad
       ELSE LET k == ParseString(SkipBlanks(Tail(text)))
                afterKey == SkipBlanks(k.rest)
            IN IF ~k.ok \/ afterKey = <<>> \/ Head(afterKey) # ":" THEN bad
               ELSE LET v == ParseString(SkipBlanks(Tail(afterKey)))
                    IN IF v.ok /\ SkipBlanks(v.rest) = <<"}">>
                       THEN [ok |-> TRUE, key |-> k.val, value |-> v.val]
                       ELSE bad

\* C13: every send publishes to the configured controller_data topic; the
\* MQTTController payload is the command itself, the UFOR11Controller
\* payload deserializes to the one-member object {"ir_code_to_send": c}.
C13_PayloadShape ==
    \A n \in 1..Len(sendLog) :
        LET call == hassCalls[sendLog[n].calls].data
            c == sendLog[n].command
        IN /\ call.topic = ctlReq.topic
           /\ ctl.cls = "MQTTController" => call.payload = c
           /\ ctl.cls = "UFOR11Controller" =>
                 JsonLoadsObject(call.payload) =
                     [ok |-> TRUE, key |-> IR_CODE_TO_SEND, value |-> c]

C13_Witness ==
    /\ Len(sendLog) = 2
    /\ ctl.cls = "UFOR11Controller"
    /\ ctlReq.topic = <<"t2">>
    /\ sendLog[1].command = <<"Q", "\"">>
    /\ sendLog[2].command = <<"\\">>
    /\ JsonLoadsObject(hassCalls[1].data.payload).value = <<"Q", "\"">>

----------------------------------------------------------------------------
(* Order of the batch run (Spec)                                           *)

\* C14: a prompt is shown only after the send of a command that is not the
\* last, once per command; a continued prompt for command i is followed by
\* the send of i+1; a run that sent all N commands showed N-1 prompts.
C14_PromptBetweenCommands ==
    /\ \A n \in EventsOf("prompt") :
          /\ trace[n].i < N
          /\ n > 1 /\ trace[n - 1].ev = "sent" /\ trace[n - 1].i = trace[n].i
          /\ \A m \in EventsOf("prompt") : trace[m].i = trace[n].i => m = n
          /\ (n < Len(trace) /\ trace[n].res = "continue") =>
                trace[n + 1] = Ev("send", trace[n].i + 1, "", <<>>)
    /\ \A n \in EventsOf("sent") :
          (trace[n].i < N /\ n < Len(trace)) => trace[n + 1].ev = "prompt"
    /\ (N > 0 /\ Count("sent") = N) => Count("prompt") = N - 1

C14_Witness ==
    /\ Exited
    /\ N = 3
    /\ Count("sent") = 3
    /\ Count("prompt") = 2
    /\ trace[Len(trace) - 2].ev = "sent"

\* The events of one kind, in the order they happened.
Only(ev) == SelectSeq(trace, LAMBDA e : e.ev = ev)

\* C16: the commands attempted so far are the first k of the flattened
\* list, each attempted once and in order; a command is published at most
\* once, inside its own attempt, with its own payload.
C16_AttemptsArePrefix ==
    /\ Len(Only("send")) <= N
    /\ \A n \in 1..Len(Only("send")) : Only("send")[n].i = n
    /\ Len(Only("send")) = IF pc = "send" THEN i - 1 ELSE i
    /\ \A n \in EventsOf("publish") :
          /\ n > 1 /\ trace[n - 1] = Ev("send", trace[n].i, "", <<>>)
          /\ trace[n].data[2] = json_dumps_envelope(all_commands[trace[n].i][2])

C16_Witness ==
    /\ Exited
    /\ N = 3
    /\ Len(Only("send")) = 3
    /\ Len(Only("publish")) = 2
    /\ \E n \in EventsOf("sent") : trace[n].i = 1 /\ trace[n].res = "False"

\* A UFOR11Controller whose controller_data is topic t.
Ufor11With(t) ==
    AbstractController_init("UFOR11Controller", UFOR11_CONTROLLER, ENC_RAW, t, 0).obj

\* C19: what send_command publishes for a command is what
\* UFOR11Controller.send publishes for it with the runner's topic as
\* controller_data: the same topic and the same payload.
C19_RunnerMatchesUfor11 ==
    \A n \in EventsOf("publish") :
        LET sd == service_data(Ufor11With(mqtt_topic), all_commands[trace[n].i][2])
        IN trace[n].data = <<sd.topic, sd.payload>>

C19_Witness ==
    /\ Count("publish") = 2
    /\ \E n \in EventsOf("publish") :
          /\ trace[n].i = 1
          /\ all_commands[1][2] = <<"Q", "\"">>
          /\ trace[n].data[2] =
                service_data(Ufor11With(mqtt_topic), <<"Q", "\"">>).payload

----------------------------------------------------------------------------
(* The connected flag (Spec)                                               *)

\* C15: the connected flag changes only in a callback step, which moves
\* neither the main thread nor its record of calls: it becomes true only
\* in the connected-callback with return code 0 and false only in the
\* disconnected-callback; no step of connect(), send_command() or
\* disconnect() changes it.
C15_FlagOnlyByCallbacks ==
    [][ /\ (connected' # connected) =>
              /\ pc' = pc /\ trace' = trace /\ connectResult' = connectResult
              /\ connected' =>
                    /\ link = "pending" /\ link' = "up"
                    /\ seen' = seen \cup { "connect_ok" }
              /\ ~connected' =>
                    /\ link' = "down"
                    /\ seen' = seen \cup { "disconnect" }
        /\ (pc' # pc \/ trace' # trace) => connected' = connected
      ]_vars

C15_Witness ==
    /\ pc = "return"
    /\ ~connected
    /\ link = "down"
    /\ seen = { "connect_ok", "disconnect" }
    /\ Count("disconnect") = 1
    /\ Count("publish") = N /\ N = 2

\* C17: the wait never runs past its budget, connect() returns True once
\* a poll of the loop has seen the flag set, and returns False only when
\* the budget is used up.
C17_BoundedWaitReturnsOnFlag ==
    /\ pc \in { "wait", "wait_check" } => timeout \in 0..(2 * ConnectTimeout)
    /\ (Count("loop_start") = 1 /\ connectResult # "none" /\ timeout > 0) =>
           connectResult = "True"
    /\ (Count("loop_start") = 1 /\ connectResult = "False") => timeout = 0

\* C18: publish is never called while the flag is false; a send that
\* finds the flag false is recorded as failed without a publish call.
C18_NoPublishWhileDisconnected ==
    [][ /\ (Len(trace') > Len(trace) /\ trace'[Len(trace')].ev = "publish") =>
              connected
        /\ (pc = "send" /\ pc' # pc /\ ~connected) =>
              /\ pc' = "sent"
              /\ trace' = trace \o << Ev("send", i, "", <<>>),
                                      Ev("sent", i, "False", <<>>) >>
      ]_vars

\* C20 as worded: once a connected-callback has carried a refusal, the
\* flag is false, connect() does not return True, the wait ends only with
\* its budget used up, and nothing is published.
C20_RefusedNeverConnects ==
    "connect_refused" \in seen =>
        /\ ~connected
        /\ connectResult # "True"
        /\ (pc = "wait_check" \/ connectResult # "none") => timeout = 0
        /\ Count("publish") = 0

\* C20, amended: only a return code of 0 sets the flag; while no
\* connected-callback with return code 0 has arrived, a refusal leaves the
\* flag false, the wait ends only with its budget used up, connect()
\* returns False and nothing is sent or published.
C20_RefusalAloneNeverConnects ==
    /\ connected => "connect_ok" \in seen
    /\ connectResult = "True" => "connect_ok" \in seen
    /\ ("connect_refused" \in seen /\ "connect_ok" \notin seen) =>
          /\ ~connected
          /\ connectResult \in { "none", "False" }
          /\ (pc = "wait_check" \/ connectResult # "none") => timeout = 0
          /\ Count("send") = 0 /\ Count("publish") = 0
          /\ Exited => exitStatus # 0

C20_Witness ==
    /\ Exited /\ exitStatus = 1
    /\ "connect_refused" \in seen /\ "connect_ok" \notin seen
    /\ connectResult = "False"
    /\ timeout = 0
    /\ trace = << Ev("loop_start", 0, "", <<>>) >>

====
